---- MODULE Spec2Model ----
(***************************************************************************)
(* Job control of the shell: the job table of jobs.c, the SIGCHLD handler, *)
(* the launchers of shell.c, the terminal hand-off and the job commands.   *)
(* The shell's main flow is one process with a program counter; children   *)
(* and the kernel's wait/terminal state are the environment.               *)
(***************************************************************************)
EXTENDS Integers, Sequences, FiniteSets, TLC

(* ------------------------------ bounds --------------------------------- *)
\* processes the shell may fork in one run (pids are 1..MaxProcs)
MaxProcs == 2
\* SIGINTs delivered to the shell in one run
MaxSigInt == 1
\* terminal modes are 1..MaxMode (1 is the shell's own mode)
MaxMode == 2
\* processes the shell may fork in a run of SpecPipe
MaxStages == 3
\* jobs the shell may launch in a run of SpecAlloc
MaxJobs == 3

(* ----------------------------- constants ------------------------------- *)
FG == 0
BG == 1
ALL == -1
FINISHED == 0
RUNNING == 1
STOPPED == 2
SIGTERM == 15
SIGCONT == 18
SIGTSTP == 20
\* a zero-filled struct termios (calloc / memset)
ZeroMode == 0
\* the terminal mode saved by initjobs
shell_tmodes == 1
T_PIPE == "|"
T_INPUT == "<"
T_OUTPUT == ">"

\* getpgrp() of the shell: a group id no child ever has
ShellPgrp == 99
Modes == 1..MaxMode

\* command lines the tokenizer hands to eval (every stage non-empty)
Cmdlines ==
  { <<"a">>,
    <<"a", T_PIPE, "b">>,
    <<"a", T_INPUT, "f", T_PIPE, "b", "x">>,
    <<"a", "x", T_PIPE, "b", T_PIPE, "c">> }

(* ------------------------- wait status encoding ------------------------ *)
W_EXITCODE(code) == code * 256
W_STOPCODE(sig) == sig * 256 + 127
W_CONTINUED == 65535
WIFSTOPPED(s) == s % 256 = 127
WIFEXITED(s) == s % 128 = 0
WIFSIGNALED(s) == s % 128 # 0 /\ s % 128 # 127
WIFCONTINUED(s) == s = W_CONTINUED
WEXITSTATUS(s) == (s \div 256) % 256
WTERMSIG(s) == s % 128

\* the exit code a program ends with is decided by the program
ExitCodeOf(argv) ==
  IF argv = <<>> THEN 0
  ELSE CASE argv[1] = "a" -> 0
         [] argv[1] = "b" -> 3
         [] OTHER -> 7

(* ------------------------------- state --------------------------------- *)
VARIABLES
  jobs,       \* the job table: slot -> job_t
  njobmax,    \* number of slots
  tty_open,   \* tty_fd still refers to the terminal
  tty_pgrp,   \* the terminal's foreground process group
  tty_mode,   \* the terminal's current mode
  children,   \* kernel view of every forked process
  blocked,    \* SIGCHLD is in the shell's signal mask
  pc,         \* where the main flow is
  frame,      \* locals of the function the main flow is in
  out,        \* what the last main-flow step printed, returned and signalled
  killedStopped, \* groups killjob was called on while the job was STOPPED
  captured,   \* per group, the terminal mode read when it stopped in foreground
  nint        \* SIGINTs delivered so far

\* the pids fork can hand out in this run
Pids == DOMAIN children

vars == <<jobs, njobmax, tty_open, tty_pgrp, tty_mode, children, blocked, pc,
          frame, out, killedStopped, captured, nint>>

Min(S) == CHOOSE x \in S : \A y \in S : x <= y
Max(S) == CHOOSE x \in S : \A y \in S : x >= y

ZeroJob ==
  [pgid |-> 0, proc |-> <<>>, tmodes |-> ZeroMode, state |-> 0, command |-> <<>>]

NoChild ==
  [run |-> "N", pend |-> FALSE, code |-> 0, term |-> FALSE, pgrp |-> 0, argv |-> <<>>]

NoFrame ==
  [tok |-> <<>>, off |-> 0, ntokens |-> 0, length |-> 0, pgid |-> 0, job |-> 0,
   pid |-> 0, bg |-> FALSE, which |-> 0, j |-> 0, next |-> ""]

NoOut ==
  [op |-> "", arg |-> 0, j |-> 0, pgid |-> 0, kind |-> "", val |-> 0, ok |-> FALSE,
   sent |-> <<>>]

\* the shell after initjobs, with n pids to hand out
InitWith(n) ==
  /\ jobs = [j \in {0} |-> ZeroJob]
  /\ njobmax = 1
  /\ tty_open = TRUE
  /\ tty_pgrp = ShellPgrp
  /\ tty_mode = shell_tmodes
  /\ children = [p \in 1..n |-> NoChild]
  /\ blocked = FALSE
  /\ pc = "readline"
  /\ frame = NoFrame
  /\ out = NoOut
  /\ killedStopped = {}
  /\ captured = [p \in 1..n |-> ZeroMode]
  /\ nint = 0

Init == InitWith(MaxProcs)

(* --------------------- the kernel's side of a child -------------------- *)
\* what waitpid(-1, &status, WUNTRACED | WNOHANG | WCONTINUED) reports for c
WaitStatus(c) ==
  IF c.run = "Z" THEN c.code
  ELSE IF c.run = "S" THEN W_STOPCODE(SIGTSTP)
  ELSE W_CONTINUED

\* the child after its state change has been collected by waitpid
Waited(c) ==
  IF c.run = "Z" THEN [NoChild EXCEPT !.run = "X"] ELSE [c EXCEPT !.pend = FALSE]

\* a signal reaches one live process: SIGTERM kills a running process and
\* stays pending on a stopped one; SIGCONT resumes a stopped process, which
\* then takes a pending SIGTERM
Deliver(c, sig) ==
  IF sig = SIGTERM
  THEN IF c.run = "R" THEN [c EXCEPT !.run = "Z", !.code = SIGTERM, !.pend = TRUE]
       ELSE [c EXCEPT !.term = TRUE]
  ELSE IF c.run = "S"
       THEN IF c.term
            THEN [c EXCEPT !.run = "Z", !.code = SIGTERM, !.pend = TRUE, !.term = FALSE]
            ELSE [c EXCEPT !.run = "R", !.pend = TRUE]
       ELSE c

\* kill(-pgrp, sig): every live member of the process group gets the signal
Kill(ch, pgrp, sig) ==
  [p \in Pids |-> IF ch[p].pgrp = pgrp /\ ch[p].run \in {"R", "S"}
                  THEN Deliver(ch[p], sig) ELSE ch[p]]

\* fork(): the lowest unused pid
Unborn == {p \in Pids : children[p].run = "N"}
NewPid == Min(Unborn)

(* ------------------------------ jobs.c ---------------------------------- *)
\* the slot and entry the handler's nested scan stops at, or {} if none
FindProc(js, n, pid) ==
  {i \in 0..(n - 1) : \E k \in 1..Len(js[i].proc) : js[i].proc[k].pid = pid}

\* the branch of the handler taken for one wait status
UpdateProc(proc, status) ==
  IF WIFSTOPPED(status) THEN [proc EXCEPT !.state = STOPPED, !.exitcode = status]
  ELSE IF WIFEXITED(status) THEN [proc EXCEPT !.state = FINISHED, !.exitcode = status]
  ELSE IF WIFSIGNALED(status) THEN [proc EXCEPT !.state = FINISHED, !.exitcode = status]
  ELSE IF WIFCONTINUED(status) THEN [proc EXCEPT !.state = RUNNING, !.exitcode = status]
  ELSE proc

\* the bit set of process states of a job: 1 FINISHED, 2 STOPPED, 4 RUNNING
StateMask(job) ==
  (IF \E k \in 1..Len(job.proc) : job.proc[k].state = FINISHED THEN 1 ELSE 0)
  + (IF \E k \in 1..Len(job.proc) : job.proc[k].state = STOPPED THEN 2 ELSE 0)
  + (IF \E k \in 1..Len(job.proc) : job.proc[k].state = RUNNING THEN 4 ELSE 0)

\* MaskState taking a job for FINISHED as soon as one process is
MaskState_AnyFinished(mask, old) ==
  CASE mask % 2 = 1 -> FINISHED
    [] mask = 2 -> STOPPED
    [] mask = 4 -> RUNNING
    [] OTHER -> old

\* the switch on the mask: a job's state changes only for masks 1, 2 and 4
MaskState(mask, old) ==
  CASE mask = 1 -> FINISHED
    [] mask = 2 -> STOPPED
    [] mask = 4 -> RUNNING
    [] OTHER -> old

\* one iteration of the handler's while loop, for the reaped (pid, status)
ReapOne(js, n, pid, status) ==
  LET hit == FindProc(js, n, pid)
      numbJob == IF hit = {} THEN 0 ELSE Min(hit)
      first == IF hit = {} THEN 0
               ELSE Min({k \in 1..Len(js[numbJob].proc) : js[numbJob].proc[k].pid = pid})
      js1 == IF hit = {} THEN js
             ELSE [js EXCEPT ![numbJob].proc[first] = UpdateProc(@, status)]
  IN [js1 EXCEPT ![numbJob].state = MaskState(StateMask(js1[numbJob]), @)]

RECURSIVE ReapAll(_, _, _, _)
ReapAll(js, n, order, ch) ==
  IF order = <<>> THEN js
  ELSE ReapAll(ReapOne(js, n, Head(order), WaitStatus(ch[Head(order)])),
               n, Tail(order), ch)

\* the orders in which waitpid(-1) may hand out the pending children
RECURSIVE Orders(_)
Orders(S) ==
  IF S = {} THEN {<<>>}
  ELSE UNION {{<<p>> \o o : o \in Orders(S \ {p})} : p \in S}

\* exitcode taking the status of the first process
exitcode_first(job) == job.proc[1].exitcode

exitcode(job) == job.proc[Len(job.proc)].exitcode

\* allocjob that never looks for a free slot
allocjob_append(js, n) ==
  [j |-> n, jobs |-> [i \in 0..n |-> IF i < n THEN js[i] ELSE ZeroJob],
   njobmax |-> n + 1]

\* allocjob: the first free background slot, else a new slot at the end
allocjob(js, n) ==
  LET free == {j \in BG..(n - 1) : js[j].pgid = 0}
  IN IF free # {}
     THEN [j |-> Min(free), jobs |-> js, njobmax |-> n]
     ELSE [j |-> n, jobs |-> [i \in 0..n |-> IF i < n THEN js[i] ELSE ZeroJob],
           njobmax |-> n + 1]

addjob(js, n, pgid, bg) ==
  LET a == IF bg THEN allocjob(js, n) ELSE [j |-> FG, jobs |-> js, njobmax |-> n]
  IN [a EXCEPT !.jobs[a.j] =
        [pgid |-> pgid, proc |-> <<>>, tmodes |-> shell_tmodes, state |-> RUNNING,
         command |-> <<>>]]

\* mkcommand: the stage's words, after " | " if the job has a command already
mkcommand(cmd, argv) == IF cmd = <<>> THEN argv ELSE cmd \o <<T_PIPE>> \o argv

addproc(js, j, pid, argv) ==
  [js EXCEPT ![j].proc = Append(@, [pid |-> pid, state |-> RUNNING, exitcode |-> -1]),
             ![j].command = mkcommand(@, argv)]

\* deljob that does not mark the slot free
deljob_keep(job) == [job EXCEPT !.command = <<>>]

\* deljob leaves state and tmodes as they are
deljob(job) == [job EXCEPT !.pgid = 0, !.command = <<>>, !.proc = <<>>]

\* movejob that frees the source slot without zeroing it
movejob_keepstate(js, from, to) ==
  [js EXCEPT ![to] = js[from], ![from].pgid = 0, ![from].proc = <<>>,
             ![from].command = <<>>]

movejob(js, from, to) == [js EXCEPT ![to] = js[from], ![from] = ZeroJob]

\* jobstate that deletes every job that no longer runs
jobstate_eager(js, j, status) ==
  IF js[j].state # RUNNING
  THEN [state |-> js[j].state, status |-> exitcode(js[j]),
        jobs |-> [js EXCEPT ![j] = deljob(@)]]
  ELSE [state |-> js[j].state, status |-> status, jobs |-> js]

\* jobstate: the state, and for a FINISHED job its status and its deletion
jobstate(js, j, status) ==
  IF js[j].state = FINISHED
  THEN [state |-> FINISHED, status |-> exitcode(js[j]), jobs |-> [js EXCEPT ![j] = deljob(@)]]
  ELSE [state |-> js[j].state, status |-> status, jobs |-> js]

\* the job resumejob picks when none is named: scan down from the last slot
LastJob(js, n) ==
  LET live == {j \in 1..(n - 1) : js[j].state # FINISHED}
  IN IF live = {} THEN 0 ELSE Max(live)

\* NoJobControl looking at the terminal only
NoJobControl_TtyOnly(ttypgrp, fgpgid) == ttypgrp # ShellPgrp

\* resumejob's test for "No task control!": the shell is not the terminal's
\* foreground group, or the foreground slot is taken
NoJobControl(ttypgrp, fgpgid) == ttypgrp # ShellPgrp \/ fgpgid # 0

\* killjob that continues a STOPPED job before it sends SIGTERM
killjob_ContFirst(js, n, ch, j) ==
  IF j >= n \/ js[j].state = FINISHED
  THEN [ok |-> FALSE, children |-> ch, sent |-> <<>>]
  ELSE IF js[j].state = STOPPED
  THEN [ok |-> TRUE,
        children |-> Kill(Kill(ch, js[j].pgid, SIGCONT), js[j].pgid, SIGTERM),
        sent |-> <<<<js[j].pgid, SIGCONT>>, <<js[j].pgid, SIGTERM>>>>]
  ELSE [ok |-> TRUE, children |-> Kill(ch, js[j].pgid, SIGTERM),
        sent |-> <<<<js[j].pgid, SIGTERM>>>>]

\* killjob: false for a slot out of range or FINISHED; else SIGTERM to the
\* group, then SIGCONT if the job is STOPPED
killjob(js, n, ch, j) ==
  IF j >= n \/ js[j].state = FINISHED
  THEN [ok |-> FALSE, children |-> ch, sent |-> <<>>]
  ELSE IF js[j].state = STOPPED
  THEN [ok |-> TRUE,
        children |-> Kill(Kill(ch, js[j].pgid, SIGTERM), js[j].pgid, SIGCONT),
        sent |-> <<<<js[j].pgid, SIGTERM>>, <<js[j].pgid, SIGCONT>>>>]
  ELSE [ok |-> TRUE, children |-> Kill(ch, js[j].pgid, SIGTERM),
        sent |-> <<<<js[j].pgid, SIGTERM>>>>]

\* MonitorStopped without the Tcgetattr into the job
MonitorStopped_NoSave(js, n, mode) ==
  LET a == allocjob(js, n)
  IN [to |-> a.j, jobs |-> movejob(a.jobs, FG, a.j), njobmax |-> a.njobmax]

\* monitorjob, job found STOPPED: save the terminal mode in the job and move
\* the job from the foreground slot to a background slot
MonitorStopped(js, n, mode) ==
  LET a == allocjob([js EXCEPT ![FG].tmodes = mode], n)
  IN [to |-> a.j, jobs |-> movejob(a.jobs, FG, a.j), njobmax |-> a.njobmax]

\* MonitorTty without the Tcsetattr of the shell's mode
MonitorTty_KeepMode(state, mode, pgrp) ==
  IF state # RUNNING
  THEN [mode |-> mode, pgrp |-> ShellPgrp]
  ELSE [mode |-> mode, pgrp |-> pgrp]

\* monitorjob, end: the terminal goes back to the shell once the job has
\* left RUNNING
MonitorTty(state, mode, pgrp) ==
  IF state # RUNNING
  THEN [mode |-> shell_tmodes, pgrp |-> ShellPgrp]
  ELSE [mode |-> mode, pgrp |-> pgrp]

\* what watchjobs prints for a job, by the state jobstate returned
ReportKind(which, jobstat, status) ==
  IF jobstat = FINISHED
  THEN IF WIFEXITED(status) THEN "exited" ELSE "killed"
  ELSE IF which # ALL THEN ""
  ELSE IF jobstat = STOPPED THEN "suspended" ELSE "running"

ReportVal(jobstat, status) ==
  IF jobstat # FINISHED THEN 0
  ELSE IF WIFEXITED(status) THEN WEXITSTATUS(status) ELSE WTERMSIG(status)

(* ------------------------------ shell.c --------------------------------- *)
is_pipeline(token) == \E i \in 1..Len(token) : token[i] = T_PIPE

\* do_redir: the number of tokens left once redirections are taken out
RECURSIVE redir_loop(_, _, _, _)
redir_loop(token, i, mode, n) ==
  IF i >= Len(token) THEN n
  ELSE IF token[i + 1] \in {T_INPUT, T_OUTPUT}
       THEN redir_loop(token, i + 1, TRUE, IF ~mode THEN i ELSE n)
       ELSE redir_loop(token, i + 1, mode, IF ~mode THEN n + 1 ELSE n)

do_redir(token) == redir_loop(token, 0, FALSE, 0)

\* the tokens a stage hands to exec and to addproc: token[0 .. n-1] of the
\* stage that starts at offset off and has length tokens
StageArgv(tok, off, length) ==
  LET stage == SubSeq(tok, off + 1, off + length)
  IN SubSeq(stage, 1, do_redir(stage))

\* the scan for the end of the next stage in do_pipeline's loop
NextLength(tok, off, ntokens, length) ==
  LET pipes == {i \in 0..(ntokens - 1) : tok[off + i + 1] = T_PIPE}
  IN IF ntokens <= 0 THEN length
     ELSE IF pipes # {} THEN Min(pipes) ELSE ntokens

\* the token count do_pipeline's loop is left with after a stage
RestTokens(ntokens, length) == ntokens - (length + 1)

NumStages(token) == Cardinality({i \in 1..Len(token) : token[i] = T_PIPE}) + 1

Spawn(ch, pid, pgrp, argv) ==
  [ch EXCEPT ![pid] = [run |-> "R", pend |-> FALSE, code |-> 0, term |-> FALSE,
                       pgrp |-> pgrp, argv |-> argv]]

\* the group a stage ends in: do_stage's child calls Setpgid(getpid(), pgid),
\* its parent Setpgid(pid, pid); the later of the two calls decides
StageGroups(pgid, pid) == IF pgid = 0 THEN {pid} ELSE {pgid, pid}

(* --------------------------- the environment ---------------------------- *)
Alive == pc # "exit"

\* a running child exits with its program's exit code
ChildExit(p) ==
  /\ Alive
  /\ children[p].run = "R"
  /\ children' = [children EXCEPT ![p].run = "Z", ![p].pend = TRUE,
                                  ![p].code = W_EXITCODE(ExitCodeOf(children[p].argv))]
  /\ out' = NoOut
  /\ UNCHANGED <<jobs, njobmax, tty_open, tty_pgrp, tty_mode, blocked, pc, frame,
                 killedStopped, captured, nint>>

\* a stop request (SIGTSTP, SIGSTOP, SIGTTIN, SIGTTOU) stops a running child
ChildStop(p) ==
  /\ Alive
  /\ children[p].run = "R"
  /\ children' = [children EXCEPT ![p].run = "S", ![p].pend = TRUE]
  /\ out' = NoOut
  /\ UNCHANGED <<jobs, njobmax, tty_open, tty_pgrp, tty_mode, blocked, pc, frame,
                 killedStopped, captured, nint>>

\* a running child of the terminal's foreground group changes the terminal mode
ChildSetMode(p, m) ==
  /\ Alive
  /\ children[p].run = "R"
  /\ children[p].pgrp = tty_pgrp
  /\ m # tty_mode
  /\ tty_mode' = m
  /\ out' = NoOut
  /\ UNCHANGED <<jobs, njobmax, tty_open, tty_pgrp, children, blocked, pc, frame,
                 killedStopped, captured, nint>>

(* --------------------------- SIGCHLD handler ---------------------------- *)
Pending == {p \in Pids : children[p].pend}
\* SuspendPcs of a wait that unblocks SIGCHLD before it suspends
SuspendPcs_Early == {"mon_susp", "mon_wait", "resume_wait", "sd_susp", "sd_wait"}

\* the main flow is inside sigsuspend
SuspendPcs == {"mon_wait", "resume_wait", "sd_wait"}

\* the handler runs when SIGCHLD is unblocked or the main flow is in
\* sigsuspend; it collects every pending child, and sigsuspend returns into
\* the loop test of its caller
sigchld_handler ==
  /\ Alive
  /\ Pending # {}
  /\ ~blocked \/ pc \in SuspendPcs
  /\ \E order \in Orders(Pending) : jobs' = ReapAll(jobs, njobmax, order, children)
  /\ children' = [p \in Pids |-> IF children[p].pend THEN Waited(children[p])
                                 ELSE children[p]]
  /\ pc' = CASE pc = "mon_wait" -> "mon_check"
             [] pc = "resume_wait" ->
                  IF jobs'[FG].state = STOPPED THEN "resume_wait" ELSE "monitorjob"
             [] pc = "sd_wait" -> "sd_check"
             [] OTHER -> pc
  /\ out' = NoOut
  /\ UNCHANGED <<njobmax, tty_open, tty_pgrp, tty_mode, blocked, frame,
                 killedStopped, captured, nint>>

\* SIGINT: siglongjmp to the main loop, which restores the mask saved by
\* sigsetjmp and reads the next line
sigint_handler ==
  /\ pc \notin {"readline", "exit"}
  /\ nint < MaxSigInt
  /\ nint' = nint + 1
  /\ pc' = "readline"
  /\ blocked' = FALSE
  /\ frame' = NoFrame
  /\ out' = NoOut
  /\ UNCHANGED <<jobs, njobmax, tty_open, tty_pgrp, tty_mode, children,
                 killedStopped, captured>>

(* ------------------------------ main flow ------------------------------- *)
\* readline returns a line only while the shell may read the terminal
CanRead == pc = "readline" /\ tty_pgrp = ShellPgrp

\* the main loop's watchjobs(FINISHED) after eval
ToWatch(which, next) == [NoFrame EXCEPT !.which = which, !.j = BG, !.next = next]

\* do_job up to fork: redirections, SIGCHLD blocked, the child in its own group
do_job_fork(token, bg) ==
  /\ CanRead
  /\ ~is_pipeline(token)
  /\ Unborn # {}
  /\ LET argv == SubSeq(token, 1, do_redir(token))
     IN /\ children' = Spawn(children, NewPid, NewPid, argv)
        /\ frame' = [NoFrame EXCEPT !.tok = argv, !.pid = NewPid, !.bg = bg]
  /\ blocked' = TRUE
  /\ pc' = "do_job"
  /\ out' = NoOut
  /\ UNCHANGED <<jobs, njobmax, tty_open, tty_pgrp, tty_mode, killedStopped,
                 captured, nint>>

\* do_job in the parent: addjob, addproc, then monitorjob or the bg notice
do_job ==
  /\ pc = "do_job"
  /\ LET a == addjob(jobs, njobmax, frame.pid, frame.bg)
     IN /\ jobs' = addproc(a.jobs, a.j, frame.pid, frame.tok)
        /\ njobmax' = a.njobmax
        /\ IF frame.bg
           THEN /\ out' = [NoOut EXCEPT !.op = "launch", !.j = a.j, !.pgid = frame.pid]
                /\ blocked' = FALSE
                /\ pc' = "watchjobs"
                /\ frame' = ToWatch(FINISHED, "readline")
           ELSE /\ out' = NoOut
                /\ pc' = "monitorjob"
                /\ UNCHANGED <<blocked, frame>>
  /\ UNCHANGED <<tty_open, tty_pgrp, tty_mode, children, killedStopped, captured, nint>>

\* do_pipeline up to the first do_stage
do_pipeline_first(token, bg) ==
  /\ CanRead
  /\ is_pipeline(token)
  /\ Cardinality(Unborn) >= NumStages(token)
  /\ LET length == Min({i \in 0..(Len(token) - 1) : token[i + 1] = T_PIPE})
     IN /\ children' = Spawn(children, NewPid, NewPid, StageArgv(token, 0, length))
        /\ frame' = [NoFrame EXCEPT !.tok = token, !.ntokens = Len(token),
                                    !.length = length, !.pid = NewPid, !.bg = bg]
  /\ blocked' = TRUE
  /\ pc' = "pl_first"
  /\ out' = NoOut
  /\ UNCHANGED <<jobs, njobmax, tty_open, tty_pgrp, tty_mode, killedStopped,
                 captured, nint>>

\* do_pipeline: the job of the first stage
do_pipeline_addjob ==
  /\ pc = "pl_first"
  /\ LET a == addjob(jobs, njobmax, frame.pid, frame.bg)
     IN /\ jobs' = addproc(a.jobs, a.j, frame.pid,
                           StageArgv(frame.tok, frame.off, frame.length))
        /\ njobmax' = a.njobmax
        /\ frame' = [frame EXCEPT !.pgid = frame.pid, !.job = a.j,
                                  !.off = @ + frame.length + 1,
                                  !.ntokens = RestTokens(@, frame.length)]
  /\ pc' = "pl_loop"
  /\ out' = NoOut
  /\ UNCHANGED <<tty_open, tty_pgrp, tty_mode, children, blocked, killedStopped,
                 captured, nint>>

\* do_pipeline's loop: find the end of the stage and do_stage it
do_pipeline_stage ==
  /\ pc = "pl_loop"
  /\ Unborn # {}
  /\ LET length == NextLength(frame.tok, frame.off, frame.ntokens, frame.length)
     IN /\ \E g \in StageGroups(frame.pgid, NewPid) :
             children' = Spawn(children, NewPid, g, StageArgv(frame.tok, frame.off, length))
        /\ frame' = [frame EXCEPT !.length = length, !.pid = NewPid]
  /\ pc' = "pl_forked"
  /\ out' = NoOut
  /\ UNCHANGED <<jobs, njobmax, tty_open, tty_pgrp, tty_mode, blocked,
                 killedStopped, captured, nint>>

\* do_pipeline's loop: addproc and the step to the next stage
do_pipeline_addproc ==
  /\ pc = "pl_forked"
  /\ jobs' = addproc(jobs, frame.job, frame.pid,
                     StageArgv(frame.tok, frame.off, frame.length))
  /\ LET rest == RestTokens(frame.ntokens, frame.length)
     IN IF rest > 0
        THEN /\ frame' = [frame EXCEPT !.ntokens = rest, !.off = @ + frame.length + 1]
             /\ pc' = "pl_loop"
        ELSE /\ frame' = [frame EXCEPT !.ntokens = rest]
             /\ pc' = "pl_done"
  /\ out' = NoOut
  /\ UNCHANGED <<njobmax, tty_open, tty_pgrp, tty_mode, children, blocked,
                 killedStopped, captured, nint>>

\* do_pipeline after the loop
do_pipeline_end ==
  /\ pc = "pl_done"
  /\ IF frame.bg
     THEN /\ out' = [NoOut EXCEPT !.op = "launch", !.j = frame.job, !.pgid = frame.pgid]
          /\ blocked' = FALSE
          /\ pc' = "watchjobs"
          /\ frame' = ToWatch(FINISHED, "readline")
     ELSE /\ out' = NoOut
          /\ pc' = "monitorjob"
          /\ UNCHANGED <<blocked, frame>>
  /\ UNCHANGED <<jobs, njobmax, tty_open, tty_pgrp, tty_mode, children,
                 killedStopped, captured, nint>>

\* monitorjob: the terminal goes to the foreground job
monitorjob ==
  /\ pc = "monitorjob"
  /\ tty_pgrp' = jobs[FG].pgid
  /\ pc' = "mon_check"
  /\ out' = NoOut
  /\ UNCHANGED <<jobs, njobmax, tty_open, tty_mode, children, blocked, frame,
                 killedStopped, captured, nint>>

\* monitorjob: the loop test, and for a job that left RUNNING the rest of
\* the function
monitorjob_check ==
  /\ pc = "mon_check"
  /\ LET r == jobstate(jobs, FG, 0)
         m == MonitorStopped(r.jobs, njobmax, tty_mode)
         t == MonitorTty(r.state, tty_mode, tty_pgrp)
     IN IF r.state = RUNNING
        THEN /\ pc' = "mon_susp"
             /\ out' = NoOut
             /\ UNCHANGED <<jobs, njobmax, tty_mode, tty_pgrp, captured, killedStopped>>
        ELSE /\ pc' = "mon_ret"
             /\ tty_mode' = t.mode
             /\ tty_pgrp' = t.pgrp
             /\ IF r.state = STOPPED
                THEN /\ jobs' = m.jobs
                     /\ njobmax' = m.njobmax
                     /\ captured' = [captured EXCEPT ![jobs[FG].pgid] = tty_mode]
                     /\ out' = [NoOut EXCEPT !.op = "monitor", !.kind = "suspended",
                                             !.j = m.to, !.pgid = jobs[FG].pgid,
                                             !.val = r.status]
                     /\ UNCHANGED killedStopped
                ELSE /\ jobs' = r.jobs
                     /\ captured' = [captured EXCEPT ![jobs[FG].pgid] = ZeroMode]
                     /\ killedStopped' = killedStopped \ {jobs[FG].pgid}
                     /\ out' = [NoOut EXCEPT !.op = "monitor", !.kind = "finished",
                                             !.pgid = jobs[FG].pgid, !.val = r.status]
                     /\ UNCHANGED njobmax
  /\ UNCHANGED <<tty_open, children, blocked, frame, nint>>

\* monitorjob: sigsuspend(mask) is entered; from here on the handler may run
\* even though SIGCHLD is blocked in the main flow
monitorjob_suspend ==
  /\ pc = "mon_susp"
  /\ pc' = "mon_wait"
  /\ out' = NoOut
  /\ UNCHANGED <<jobs, njobmax, tty_open, tty_pgrp, tty_mode, children, blocked,
                 frame, killedStopped, captured, nint>>

\* the launcher or builtin that called monitorjob restores the signal mask
monitorjob_return ==
  /\ pc = "mon_ret"
  /\ blocked' = FALSE
  /\ pc' = "watchjobs"
  /\ frame' = ToWatch(FINISHED, "readline")
  /\ out' = NoOut
  /\ UNCHANGED <<jobs, njobmax, tty_open, tty_pgrp, tty_mode, children,
                 killedStopped, captured, nint>>

\* the jobs builtin: watchjobs(ALL), then the main loop's watchjobs(FINISHED)
do_jobs ==
  /\ CanRead
  /\ pc' = "watchjobs"
  /\ frame' = ToWatch(ALL, "loop")
  /\ out' = NoOut
  /\ UNCHANGED <<jobs, njobmax, tty_open, tty_pgrp, tty_mode, children, blocked,
                 killedStopped, captured, nint>>

\* one iteration of watchjobs' loop over the background slots
watchjobs ==
  /\ pc = "watchjobs"
  /\ frame.j < njobmax
  /\ LET j == frame.j
         r == jobstate(jobs, j, 0)
     IN IF jobs[j].pgid = 0
        THEN /\ out' = NoOut
             /\ UNCHANGED <<jobs, killedStopped, captured>>
        ELSE /\ jobs' = r.jobs
             /\ out' = IF ReportKind(frame.which, r.state, r.status) = "" THEN NoOut
                       ELSE [NoOut EXCEPT !.op = "report", !.j = j, !.pgid = jobs[j].pgid,
                                          !.kind = ReportKind(frame.which, r.state, r.status),
                                          !.val = ReportVal(r.state, r.status)]
             /\ killedStopped' = IF r.state = FINISHED
                                 THEN killedStopped \ {jobs[j].pgid} ELSE killedStopped
             /\ captured' = IF r.state = FINISHED
                            THEN [captured EXCEPT ![jobs[j].pgid] = ZeroMode] ELSE captured
  /\ frame' = [frame EXCEPT !.j = @ + 1]
  /\ UNCHANGED <<njobmax, tty_open, tty_pgrp, tty_mode, children, blocked, pc, nint>>

\* watchjobs returns: to the main loop's own watchjobs(FINISHED), to
\* readline, or to the end of shutdownjobs
watchjobs_return ==
  /\ pc = "watchjobs"
  /\ frame.j >= njobmax
  /\ out' = NoOut
  /\ IF frame.next = "loop"
     THEN /\ frame' = ToWatch(FINISHED, "readline")
          /\ UNCHANGED <<pc, blocked, tty_open>>
     ELSE IF frame.next = "close"
     THEN /\ frame' = NoFrame
          /\ blocked' = FALSE
          /\ tty_open' = FALSE
          /\ pc' = "exit"
     ELSE /\ frame' = NoFrame
          /\ pc' = "readline"
          /\ UNCHANGED <<blocked, tty_open>>
  /\ UNCHANGED <<jobs, njobmax, tty_pgrp, tty_mode, children, killedStopped,
                 captured, nint>>

\* the fg and bg builtins: resumejob(j, bg, mask) up to its first sigsuspend,
\* its call of monitorjob or its return; j < 0 names no job
resumejob(j, bg) ==
  /\ CanRead
  /\ LET sel == IF j < 0 THEN LastJob(jobs, njobmax) ELSE j
         moved == movejob(jobs, sel, FG)
     IN IF sel >= njobmax \/ jobs[sel].state = FINISHED
        THEN /\ out' = [NoOut EXCEPT !.op = "resume", !.arg = j, !.kind = "nojob",
                                     !.j = sel]
             /\ pc' = "watchjobs"
             /\ frame' = ToWatch(FINISHED, "readline")
             /\ UNCHANGED <<jobs, tty_pgrp, tty_mode, children, blocked>>
        ELSE IF NoJobControl(tty_pgrp, jobs[FG].pgid)
        THEN /\ out' = [NoOut EXCEPT !.op = "resume", !.arg = j, !.kind = "nocontrol",
                                     !.j = sel,
                                     !.pgid = jobs[sel].pgid]
             /\ pc' = "watchjobs"
             /\ frame' = ToWatch(FINISHED, "readline")
             /\ UNCHANGED <<jobs, tty_pgrp, tty_mode, children, blocked>>
        ELSE IF ~bg
        THEN /\ jobs' = moved
             /\ tty_pgrp' = moved[FG].pgid
             /\ tty_mode' = moved[FG].tmodes
             /\ children' = IF moved[FG].state = STOPPED
                            THEN Kill(children, moved[FG].pgid, SIGCONT) ELSE children
             /\ out' = [NoOut EXCEPT !.op = "resume", !.arg = j, !.kind = "fg", !.j = sel,
                                     !.pgid = moved[FG].pgid, !.ok = TRUE,
                                     !.val = moved[FG].tmodes,
                                     !.sent = IF moved[FG].state = STOPPED
                                              THEN <<<<moved[FG].pgid, SIGCONT>>>> ELSE <<>>]
             /\ pc' = IF moved[FG].state = STOPPED THEN "resume_wait" ELSE "monitorjob"
             /\ frame' = NoFrame
             /\ blocked' = TRUE
        ELSE /\ children' = IF jobs[sel].state = STOPPED
                            THEN Kill(children, jobs[sel].pgid, SIGCONT) ELSE children
             /\ out' = [NoOut EXCEPT !.op = "resume", !.arg = j, !.kind = "bg", !.j = sel,
                                     !.pgid = jobs[sel].pgid, !.ok = TRUE,
                                     !.sent = IF jobs[sel].state = STOPPED
                                              THEN <<<<jobs[sel].pgid, SIGCONT>>>> ELSE <<>>]
             /\ pc' = "watchjobs"
             /\ frame' = ToWatch(FINISHED, "readline")
             /\ UNCHANGED <<jobs, tty_pgrp, tty_mode, blocked>>
  /\ UNCHANGED <<njobmax, tty_open, killedStopped, captured, nint>>

\* the kill builtin: killjob(j)
do_kill(j) ==
  /\ CanRead
  /\ LET k == killjob(jobs, njobmax, children, j)
     IN /\ children' = k.children
        /\ out' = [NoOut EXCEPT !.op = "kill", !.j = j, !.ok = k.ok, !.sent = k.sent]
        /\ killedStopped' = IF k.ok /\ jobs[j].state = STOPPED
                            THEN killedStopped \cup {jobs[j].pgid} ELSE killedStopped
  /\ pc' = "watchjobs"
  /\ frame' = ToWatch(FINISHED, "readline")
  /\ UNCHANGED <<jobs, njobmax, tty_open, tty_pgrp, tty_mode, blocked, captured, nint>>

\* readline returns NULL: shutdownjobs blocks SIGCHLD
shutdownjobs ==
  /\ pc = "readline"
  /\ blocked' = TRUE
  /\ pc' = "shutdownjobs"
  /\ frame' = [NoFrame EXCEPT !.j = 1]
  /\ out' = NoOut
  /\ UNCHANGED <<jobs, njobmax, tty_open, tty_pgrp, tty_mode, children,
                 killedStopped, captured, nint>>

\* one iteration of shutdownjobs' loop: killjob(i), and for a job that was
\* killed the loop that waits for FINISHED; after the loop, watchjobs(FINISHED)
shutdownjobs_kill ==
  /\ pc = "shutdownjobs"
  /\ IF frame.j >= njobmax
     THEN /\ pc' = "watchjobs"
          /\ frame' = ToWatch(FINISHED, "close")
          /\ out' = NoOut
          /\ UNCHANGED <<children, killedStopped>>
     ELSE LET k == killjob(jobs, njobmax, children, frame.j)
          IN /\ children' = k.children
             /\ out' = [NoOut EXCEPT !.op = "kill", !.j = frame.j, !.ok = k.ok,
                                     !.sent = k.sent]
             /\ killedStopped' = IF k.ok /\ jobs[frame.j].state = STOPPED
                                 THEN killedStopped \cup {jobs[frame.j].pgid}
                                 ELSE killedStopped
             /\ IF k.ok
                THEN pc' = "sd_check" /\ frame' = frame
                ELSE pc' = pc /\ frame' = [frame EXCEPT !.j = @ + 1]
  /\ UNCHANGED <<jobs, njobmax, tty_open, tty_pgrp, tty_mode, blocked, captured, nint>>

\* shutdownjobs: the test of the waiting loop, while (jobs[i].state != FINISHED)
shutdownjobs_check ==
  /\ pc = "sd_check"
  /\ IF jobs[frame.j].state # FINISHED
     THEN pc' = "sd_susp" /\ frame' = frame
     ELSE pc' = "shutdownjobs" /\ frame' = [frame EXCEPT !.j = @ + 1]
  /\ out' = NoOut
  /\ UNCHANGED <<jobs, njobmax, tty_open, tty_pgrp, tty_mode, children, blocked,
                 killedStopped, captured, nint>>

\* shutdownjobs: sigsuspend(&mask) is entered
shutdownjobs_suspend ==
  /\ pc = "sd_susp"
  /\ pc' = "sd_wait"
  /\ out' = NoOut
  /\ UNCHANGED <<jobs, njobmax, tty_open, tty_pgrp, tty_mode, children, blocked,
                 frame, killedStopped, captured, nint>>

Next ==
  \/ \E p \in Pids : ChildExit(p)
  \/ \E p \in Pids : ChildStop(p)
  \/ \E p \in Pids, m \in Modes : ChildSetMode(p, m)
  \/ sigchld_handler
  \/ sigint_handler
  \/ \E token \in Cmdlines, bg \in BOOLEAN : do_job_fork(token, bg)
  \/ do_job
  \/ \E token \in Cmdlines, bg \in BOOLEAN : do_pipeline_first(token, bg)
  \/ do_pipeline_addjob
  \/ do_pipeline_stage
  \/ do_pipeline_addproc
  \/ do_pipeline_end
  \/ monitorjob
  \/ monitorjob_check
  \/ monitorjob_suspend
  \/ monitorjob_return
  \/ do_jobs
  \/ watchjobs
  \/ watchjobs_return
  \/ \E j \in -1..njobmax, bg \in BOOLEAN : resumejob(j, bg)
  \/ \E j \in 0..njobmax : do_kill(j)
  \/ shutdownjobs
  \/ shutdownjobs_kill
  \/ shutdownjobs_check
  \/ shutdownjobs_suspend

Spec == Init /\ [][Next]_vars

\* pipelines only, of up to MaxStages stages: launched, reported, resumed
\* and killed, up to the shell's shutdown
PipeCmdlines == {t \in Cmdlines : is_pipeline(t)}

InitPipe == InitWith(MaxStages)

NextPipe ==
  \/ \E p \in Pids : ChildExit(p)
  \/ \E p \in Pids : ChildStop(p)
  \/ sigchld_handler
  \/ \E token \in PipeCmdlines, bg \in BOOLEAN : do_pipeline_first(token, bg)
  \/ do_pipeline_addjob
  \/ do_pipeline_stage
  \/ do_pipeline_addproc
  \/ do_pipeline_end
  \/ monitorjob
  \/ monitorjob_check
  \/ monitorjob_suspend
  \/ monitorjob_return
  \/ do_jobs
  \/ watchjobs
  \/ watchjobs_return
  \/ \E j \in -1..njobmax, bg \in BOOLEAN : resumejob(j, bg)
  \/ \E j \in 0..njobmax : do_kill(j)
  \/ shutdownjobs
  \/ shutdownjobs_kill
  \/ shutdownjobs_check
  \/ shutdownjobs_suspend

SpecPipe == InitPipe /\ [][NextPipe]_vars

\* single commands only, up to MaxJobs of them, in foreground or background,
\* with the resume commands: the slots jobs are given, freed and moved to
InitAlloc == InitWith(MaxJobs)

NextAlloc ==
  \/ \E p \in Pids : ChildExit(p)
  \/ \E p \in Pids : ChildStop(p)
  \/ sigchld_handler
  \/ \E bg \in BOOLEAN : do_job_fork(<<"a">>, bg)
  \/ do_job
  \/ monitorjob
  \/ monitorjob_check
  \/ monitorjob_suspend
  \/ monitorjob_return
  \/ watchjobs
  \/ watchjobs_return
  \/ \E bg \in BOOLEAN : resumejob(-1, bg)

SpecAlloc == InitAlloc /\ [][NextAlloc]_vars

(* ------------------------------- claims --------------------------------- *)
\* C1: whenever monitorjob has returned, for a job found FINISHED or found
\* STOPPED, the terminal's foreground group is the shell's group and the
\* terminal mode is the mode the shell saved in initjobs
C1_TerminalRestored ==
  pc = "mon_ret" => tty_pgrp = ShellPgrp /\ tty_mode = shell_tmodes

\* monitorjob returned for a stopped job that had changed the terminal mode
C1_Witness ==
  /\ pc = "mon_ret"
  /\ out.kind = "suspended"
  /\ jobs[out.j].tmodes # shell_tmodes
  /\ tty_mode = shell_tmodes

\* the processes of the job in slot j that have not terminated
LiveProcs(j) ==
  {k \in 1..Len(jobs[j].proc) : children[jobs[j].proc[k].pid].run \in {"R", "S"}}

\* every state change of the job in slot j has been collected by the handler
Collected(j) ==
  \A k \in 1..Len(jobs[j].proc) : ~children[jobs[j].proc[k].pid].pend

\* every live process of the job in slot j is stopped, with no signal pending
AllLiveStopped(j) ==
  /\ LiveProcs(j) # {}
  /\ \A k \in LiveProcs(j) :
        /\ children[jobs[j].proc[k].pid].run = "S"
        /\ ~children[jobs[j].proc[k].pid].term

\* C2: a foreground job whose live processes were all stopped while
\* monitorjob waits on it makes monitorjob return: once the handler has
\* collected every state change monitorjob is not still in sigsuspend, and
\* when it returns for a stopped job the job is STOPPED in a background
\* slot, slot 0 is free and the shell owns the terminal
C2_StopRelocates ==
  /\ ~(pc = "mon_wait" /\ jobs[FG].pgid # 0 /\ AllLiveStopped(FG) /\ Collected(FG))
  /\ pc = "mon_ret" /\ out.kind = "suspended" =>
       /\ out.j >= BG
       /\ jobs[out.j].pgid = out.pgid
       /\ jobs[out.j].state = STOPPED
       /\ jobs[FG].pgid = 0
       /\ tty_pgrp = ShellPgrp

\* the positions of the pipe tokens of a command line
PipePos(token) == {k \in 1..Len(token) : token[k] = T_PIPE}

\* the tokens of stage i of a command line, between its pipe tokens
StageTokens(token, i) ==
  LET nth(n) == CHOOSE k \in PipePos(token) :
                  Cardinality({q \in PipePos(token) : q < k}) = n - 1
      first == IF i = 1 THEN 1 ELSE nth(i - 1) + 1
      last == IF i = NumStages(token) THEN Len(token) ELSE nth(i) - 1
  IN SubSeq(token, first, last)

\* the words of a stage: its tokens before the first redirection
StageWords(token, i) ==
  LET st == StageTokens(token, i)
      red == {k \in 1..Len(st) : st[k] \in {T_INPUT, T_OUTPUT}}
  IN IF red = {} THEN st ELSE SubSeq(st, 1, Min(red) - 1)

\* the words of the last stage of a job's command text
LastWords(command) == StageWords(command, NumStages(command))

\* the slots whose job holds process pid
SlotsOf(pid) == FindProc(jobs, njobmax, pid)

\* the pipeline builder has registered its last stage: the job has one
\* entry per stage, entry i is the process forked for the words of stage i,
\* and no other slot holds any of them
C3_Registered ==
  pc = "pl_done" =>
    LET job == jobs[frame.job]
    IN /\ NumStages(frame.tok) >= 2
       /\ Len(job.proc) = NumStages(frame.tok)
       /\ job.pgid = job.proc[1].pid
       /\ \A i \in 1..Len(job.proc) :
            /\ children[job.proc[i].pid].argv = StageWords(frame.tok, i)
            /\ SlotsOf(job.proc[i].pid) = {frame.job}
            /\ \A k \in 1..Len(job.proc) : job.proc[k].pid = job.proc[i].pid => k = i

\* the status a step reports for a job found FINISHED is the status of the
\* program of the job's last stage: its exit code, or SIGTERM if it was killed
C3_ExitStatus ==
  /\ out'.op = "monitor" /\ out'.kind = "finished" =>
       out'.val \in {W_EXITCODE(ExitCodeOf(LastWords(jobs[FG].command))), SIGTERM}
  /\ out'.op = "report" /\ out'.kind = "exited" =>
       out'.val = ExitCodeOf(LastWords(jobs[out'.j].command))
  /\ out'.op = "report" /\ out'.kind = "killed" => out'.val = SIGTERM

\* C3: for a pipeline of N >= 2 stages, when the builder has registered the
\* last stage one job holds exactly N entries in stage order, and the status
\* reported for a FINISHED job is that of its last stage's process
C3_PipelineJob == [](C3_Registered) /\ [][C3_ExitStatus]_vars

\* a three-stage background pipeline ran to its end and was reported with
\* the exit status 7 of its last stage
C3_Witness ==
  /\ out.op = "report"
  /\ out.kind = "exited"
  /\ out.val = 7
  /\ children[3].run = "X"

\* a step of watchjobs' loop, on slot frame.j
WatchStep == pc = "watchjobs" /\ frame.j < njobmax /\ frame'.j = frame.j + 1

\* every process of the job in slot j runs
AllRunning(j) ==
  \A k \in 1..Len(jobs[j].proc) : children[jobs[j].proc[k].pid].run = "R"

C4_Step ==
  /\ WatchStep /\ jobs[frame.j].pgid # 0 /\ jobs[frame.j].state = FINISHED =>
       /\ out'.op = "report"
       /\ out'.kind \in {"exited", "killed"}
       /\ out'.pgid = jobs[frame.j].pgid
  /\ WatchStep /\ frame.which = ALL /\ jobs[frame.j].pgid # 0
       /\ AllRunning(frame.j) /\ Collected(frame.j) =>
       /\ out'.op = "report"
       /\ out'.kind = "running"
       /\ out'.pgid = jobs[frame.j].pgid
  /\ out'.op = "report" =>
       /\ out'.j >= BG
       /\ jobs[out'.j].pgid = out'.pgid
       /\ out'.pgid # 0
  /\ out'.op = "report" /\ out'.kind \in {"exited", "killed"} =>
       /\ jobs[out'.j].state = FINISHED
       /\ \A k \in 1..Len(jobs[out'.j].proc) :
            children[jobs[out'.j].proc[k].pid].run = "X"
       /\ \A j \in 0..(njobmax' - 1) : jobs'[j].pgid # out'.pgid
  /\ out'.op = "report" /\ out'.kind \in {"running", "suspended"} =>
       jobs[out'.j].state # FINISHED

\* C4: watchjobs(ALL) reports a background job whose processes all run as
\* running; a watchjobs step that comes to a FINISHED job reports it as
\* finished, only jobs whose processes have all ended are reported finished,
\* that report frees the slot, and a report only ever names a job that is in
\* the table, so a job reported finished is named by no later report
C4_ReportedOnce == [][C4_Step]_vars

\* a background job was reported finished by the main loop and its slot freed
C4_Witness ==
  /\ out.op = "report"
  /\ out.kind = "exited"
  /\ jobs[out.j].pgid = 0
  /\ \A j \in 0..(njobmax - 1) : jobs[j].pgid # out.pgid

\* C5: a job killjob was called on while it was STOPPED becomes FINISHED:
\* once none of its processes runs and the handler has collected every
\* state change, the job is FINISHED
C5_KilledStoppedFinishes ==
  \A j \in 0..(njobmax - 1) :
    /\ jobs[j].pgid \in killedStopped
    /\ Collected(j)
    /\ \A k \in 1..Len(jobs[j].proc) : children[jobs[j].proc[k].pid].run # "R"
    => jobs[j].state = FINISHED

\* a step of the kill builtin or of shutdownjobs' loop that calls killjob
KillStep == out'.op = "kill"

C6_Step ==
  KillStep =>
    /\ (out'.j >= njobmax \/ jobs[out'.j].state = FINISHED \/ jobs[out'.j].pgid = 0) =>
         /\ ~out'.ok
         /\ out'.sent = <<>>
         /\ children' = children
         /\ jobs' = jobs
         /\ njobmax' = njobmax
    /\ \A i \in 1..Len(out'.sent) : out'.sent[i][1] # 0

C7_Step ==
  out'.op = "resume" /\ (tty_pgrp # ShellPgrp \/ jobs[FG].pgid # 0) =>
    /\ ~out'.ok
    /\ out'.sent = <<>>
    /\ jobs' = jobs
    /\ njobmax' = njobmax
    /\ children' = children
    /\ tty_pgrp' = tty_pgrp
    /\ tty_mode' = tty_mode

C8_MostRecent ==
  out.op = "resume" /\ out.arg < 0 /\ out.kind # "nojob" =>
    \A j \in 0..(njobmax - 1) :
      jobs[j].pgid # 0 /\ jobs[j].state # FINISHED => jobs[j].pgid <= out.pgid

C9_Step ==
  out'.op = "resume" /\ out'.kind = "fg" /\ captured[out'.pgid] # ZeroMode =>
    /\ tty_mode' = captured[out'.pgid]
    /\ jobs'[FG].pgid = out'.pgid
    /\ tty_pgrp' = out'.pgid

\* C9: resumejob to the foreground, for a job that had stopped in the
\* foreground, installs the terminal mode read from the terminal when
\* monitorjob found the job stopped
C9_ModeRestored == [][C9_Step]_vars

\* a job stopped in a mode other than the shell's was resumed to the
\* foreground from a background slot, in that mode
C9_Witness ==
  /\ out.op = "resume"
  /\ out.kind = "fg"
  /\ out.j >= BG
  /\ captured[out.pgid] \notin {ZeroMode, shell_tmodes}
  /\ tty_mode = captured[out.pgid]

\* C10: shutdownjobs ends: it is never waiting for a job none of whose
\* processes can change state any more, and when the shell has released the
\* terminal every background slot is free
C10_ShutdownEnds ==
  /\ pc = "sd_wait" =>
       \E k \in 1..Len(jobs[frame.j].proc) :
          \/ children[jobs[frame.j].proc[k].pid].run = "R"
          \/ children[jobs[frame.j].proc[k].pid].pend
  /\ pc = "exit" => ~tty_open /\ \A j \in BG..(njobmax - 1) : jobs[j].pgid = 0

\* the slots that hold a job
Occupied == {j \in 0..(njobmax - 1) : jobs[j].pgid # 0}

FreeSlots == {j \in BG..(njobmax - 1) : jobs[j].pgid = 0}

\* the background slots a step puts a job into
Allocated == {j \in BG..(njobmax' - 1) :
                jobs'[j].pgid # 0 /\ (j >= njobmax \/ jobs[j].pgid = 0)}

C12_Step ==
  /\ njobmax' >= njobmax
  /\ DOMAIN jobs' = 0..(njobmax' - 1)
  /\ njobmax' > njobmax => njobmax' = njobmax + 1 /\ FreeSlots = {}
  /\ \A j \in Allocated :
       IF FreeSlots = {} THEN j = njobmax /\ njobmax' = njobmax + 1
       ELSE j = Min(FreeSlots) /\ njobmax' = njobmax
  /\ out'.op = "report" /\ out'.kind \in {"exited", "killed"} =>
       jobs[out'.j].pgid # 0 /\ jobs'[out'.j].pgid = 0

\* C12: the number of slots never decreases; the report that deletes a job
\* sets its slot's pgid to 0; a step that allocates a background slot
\* appends one slot only when no background slot is free and otherwise takes
\* the first free slot, leaving the number of slots as it is
C12_SlotsReused == [][C12_Step]_vars

\* the third job was launched into slot 1, which the first job held until
\* it was reported finished and deleted, while the second job is in slot 2
C12_Witness ==
  /\ out.op = "launch"
  /\ out.j = 1
  /\ out.pgid = 3
  /\ njobmax = 3
  /\ jobs[2].pgid = 2
  /\ children[1].run = "X"

\* the main flow is in a launcher, between its first fork and the end of its
\* registrations
LaunchPcs == {"do_job", "pl_first", "pl_loop", "pl_forked", "pl_done"}

\* the children whose state change a step of the handler collects
Reaped == {p \in Pids : children[p].pend /\ ~children'[p].pend}

C13_Step ==
  /\ pc \in LaunchPcs => blocked
  /\ Reaped # {} => pc \notin LaunchPcs
  /\ \A p \in Reaped : SlotsOf(p) # {}

\* C13: in do_job and do_pipeline SIGCHLD is blocked from the first fork
\* until the last addproc, the handler does not run in between, and the
\* handler never collects a state change of a child whose pid is in no job
C13_SpawnRegistered == [][C13_Step]_vars

\* the next step of watchjobs deletes the job in slot frame.j
WatchDeletes ==
  /\ pc = "watchjobs"
  /\ frame.j < njobmax
  /\ jobs[frame.j].pgid # 0
  /\ jobs[frame.j].state = FINISHED

\* C14: wherever the next step of the main flow changes the job table
\* (addjob, addproc, the deljob of jobstate in monitorjob and in watchjobs,
\* allocjob and movejob in monitorjob), SIGCHLD is blocked
C14_MutationsBlocked ==
  /\ pc \in {"do_job", "pl_first", "pl_forked", "mon_check"} => blocked
  /\ WatchDeletes => blocked

\* the process group the kernel has process entry k of the job in slot j in
GroupOf(j, k) == children[jobs[j].proc[k].pid].pgrp

\* C15: when do_pipeline has spawned and registered every stage, every
\* stage's process is in one process group, the group of the first stage's
\* pid, which is the job's pgid
C15_OneGroup ==
  pc = "pl_done" =>
    /\ jobs[frame.job].pgid = jobs[frame.job].proc[1].pid
    /\ \A k \in 1..Len(jobs[frame.job].proc) :
         children[jobs[frame.job].proc[k].pid].run # "X" =>
           GroupOf(frame.job, k) = jobs[frame.job].pgid

\* C16: in monitorjob and in shutdownjobs the loop test and the call of
\* sigsuspend run with SIGCHLD blocked, so the handler changes a job only
\* inside sigsuspend, which then returns into the loop test: the main flow
\* never enters or sits in sigsuspend for a job that has already left the
\* state the loop waits in
C16_NoLostWakeup ==
  /\ pc \in {"mon_check", "mon_susp", "mon_wait", "sd_check", "sd_susp", "sd_wait"}
       => blocked
  /\ pc \in {"mon_susp", "mon_wait"} => jobs[FG].state = RUNNING
  /\ pc \in {"sd_susp", "sd_wait"} => jobs[frame.j].state # FINISHED

\* the only process of the foreground job changed state after monitorjob's
\* loop test and before sigsuspend was entered
C16_Witness ==
  /\ pc = "mon_susp"
  /\ Len(jobs[FG].proc) = 1
  /\ children[jobs[FG].proc[1].pid].pend
  /\ jobs[FG].state = RUNNING

\* a step in which killjob acts on a job that is STOPPED
KillsStopped ==
  /\ KillStep
  /\ out'.ok
  /\ jobs[out'.j].state = STOPPED

C17_TermStep ==
  KillsStopped =>
    out'.sent = <<<<jobs[out'.j].pgid, SIGTERM>>, <<jobs[out'.j].pgid, SIGCONT>>>>

C17_ContStep ==
  KillsStopped =>
    out'.sent = <<<<jobs[out'.j].pgid, SIGCONT>>, <<jobs[out'.j].pgid, SIGTERM>>>>

LiveEntries(j) == {k \in 1..Len(jobs[j].proc) : jobs[j].proc[k].state # FINISHED}

\* C18: a job's state follows its live process entries: if all entries that
\* are not FINISHED are STOPPED the job is STOPPED, and if all of them are
\* RUNNING the job is RUNNING, whatever other entries are FINISHED
C18_LiveDecide ==
  \A j \in Occupied :
    LiveEntries(j) # {} =>
      /\ (\A k \in LiveEntries(j) : jobs[j].proc[k].state = STOPPED)
           => jobs[j].state = STOPPED
      /\ (\A k \in LiveEntries(j) : jobs[j].proc[k].state = RUNNING)
           => jobs[j].state = RUNNING

\* the slots whose job a step deletes: the slot is freed and the job's group
\* is in no slot afterwards
Deleted ==
  {j \in Occupied :
     /\ jobs'[j].pgid = 0
     /\ \A i \in 0..(njobmax' - 1) : jobs'[i].pgid # jobs[j].pgid}

\* the moves <<from, to>> a step makes: the job of slot from is in slot to
\* afterwards and slot from is freed
Moved ==
  {m \in Occupied \X (0..(njobmax' - 1)) :
     /\ m[1] # m[2]
     /\ jobs'[m[1]].pgid = 0
     /\ jobs'[m[2]].pgid = jobs[m[1]].pgid}

C19_Step ==
  /\ \A j \in Deleted : jobs[j].state = FINISHED
  /\ \A m \in Moved : m[2] >= njobmax \/ jobs[m[2]].pgid = 0

\* C19: the assertions of deljob and movejob hold whenever they are
\* reached: a step deletes a job only if the job is FINISHED, and a step
\* moves a job only into a slot that is free or new
C19_AssertsHold == [][C19_Step]_vars

\* resumejob has moved a job from a background slot into the foreground
\* slot, which was free, and the background slot is free now
C19_Witness ==
  /\ out.op = "resume"
  /\ out.kind = "fg"
  /\ out.j >= BG
  /\ jobs[FG].pgid = out.pgid
  /\ jobs[out.j].pgid = 0
  /\ jobs[FG].state = RUNNING

\* C20: whenever the main loop is at readline the shell owns the terminal
\* and slot 0 is free, and whenever a launcher is about to call addjob for a
\* foreground job slot 0 is free
C20_ForegroundFree ==
  /\ pc = "readline" => tty_pgrp = ShellPgrp /\ jobs[FG].pgid = 0
  /\ pc \in {"do_job", "pl_first"} /\ ~frame.bg => jobs[FG].pgid = 0

====
